---- MODULE Spec2Model ----
(***************************************************************************)
(* Installment plan of a loan (sistema-pagos): the ContenedorPagos         *)
(* component, the calculation helpers (utils/calculos) and the validation  *)
(* helpers (utils/validaciones).                                           *)
(*                                                                         *)
(* Numbers.  The program works on IEEE doubles rounded to                  *)
(* PRECISION_CALCULOS decimals by redondear.  Here an amount or a          *)
(* percentage is an integer count of units of 10^-PRECISION_CALCULOS, and  *)
(* redondear(n, d) rounds the rational n/d (in units) the way Math.round   *)
(* does (floor(x + 1/2)).  The source sets PRECISION_CALCULOS to 10; the   *)
(* model uses 4 so that every intermediate product fits TLC's 32-bit       *)
(* integers.  The thresholds 0.001 and 0.01 of the source stay             *)
(* representable and, as in the source, stay far above the rounding        *)
(* residue of a short sequence.  The loan total is a whole number of       *)
(* currency units.  Form fields hold decimal numerals (parseFloat never    *)
(* yields NaN here).                                                       *)
(*                                                                         *)
(* Dates.  A calendar date (YYYY-MM-DD) is a day number >= 1; 0 is the     *)
(* empty string.  Timestamps (ISO instants) are values of a clock that     *)
(* ticks on every read.                                                    *)
(***************************************************************************)
EXTENDS Integers, Sequences, FiniteSets, TLC

\* ------------------------------------------------------------ constants
PRECISION_CALCULOS == 4
multiplicador == 10 ^ PRECISION_CALCULOS
PORCENTAJE_TOTAL == 100
MONTO_TOTAL_INICIAL == 182
\* MARGEN_ERROR_PORCENTAJE = 0.01, in units
MARGEN_ERROR_PORCENTAJE == multiplicador \div 100
\* the literal 0.001 of ajustarPorcentajes / ajustarMontos, in units
UmbralAjuste == multiplicador \div 1000
\* 100 (percent) in units
Cien == PORCENTAJE_TOTAL * multiplicador

\* ------------------------------------------------------------ bounds
MaxPagos == 2
MaxReloj == 3
MaxEstados == 4
MaxPlan == 3

\* loan totals (currency units) of the stored loans
Totales == {MONTO_TOTAL_INICIAL}
\* amounts the user types in the amount field (currency units)
MontosEntrada == {0, 60, 250}
\* percentages the user types in the percentage field (percent)
PorcentajesEntrada == {50}
\* days the date pickers offer and the days "today" takes
Fechas == {1, 2}

\* ------------------------------------------------------------ calculos
Abs(x) == IF x < 0 THEN -x ELSE x

\* Math.round(n/d * 10^p) / 10^p for a value n/d expressed in units, d > 0
redondear(n, d) == (2 * n + d) \div (2 * d)

\* montoTotal is in currency units, monto in units
calcularPorcentaje(monto, total) ==
    IF total = 0 THEN 0 ELSE redondear(monto * PORCENTAJE_TOTAL, total)

\* variant: the amount is rounded to the one decimal of the display
calcularMonto_visible(porcentaje, total) ==
    redondear(porcentaje * total, PORCENTAJE_TOTAL * (multiplicador \div 10))
        * (multiplicador \div 10)

calcularMonto(porcentaje, total) == redondear(porcentaje * total, PORCENTAJE_TOTAL)

RECURSIVE SumaMontos(_)
SumaMontos(ps) == IF ps = << >> THEN 0 ELSE Head(ps).monto + SumaMontos(Tail(ps))

RECURSIVE SumaPorcentajes(_)
SumaPorcentajes(ps) ==
    IF ps = << >> THEN 0 ELSE Head(ps).porcentaje + SumaPorcentajes(Tail(ps))

calcularMontoTotal(ps) == redondear(SumaMontos(ps), 1)

calcularPorcentajeTotal(ps) == redondear(SumaPorcentajes(ps), 1)

calcularMontoRestante(ps, total) ==
    redondear(total * multiplicador - calcularMontoTotal(ps), 1)

calcularPorcentajeRestante(ps) == redondear(Cien - calcularPorcentajeTotal(ps), 1)

\* variant: the difference with 100 is put on the first pago
ajustarPorcentajes_alPrimero(ps, total) ==
    IF Len(ps) = 0 THEN ps
    ELSE LET act == [i \in 1 .. Len(ps) |->
                        [ps[i] EXCEPT !.porcentaje = calcularPorcentaje(ps[i].monto, total)]]
             diferencia == Cien - SumaPorcentajes(act)
         IN  IF Abs(diferencia) > UmbralAjuste
             THEN [act EXCEPT ![1].porcentaje = act[1].porcentaje + diferencia]
             ELSE act

\* variant: the percentages are recomputed but the difference with 100 is not
\* put on the last pago
ajustarPorcentajes_sinAjuste(ps, total) ==
    IF Len(ps) = 0 THEN ps
    ELSE [i \in 1 .. Len(ps) |->
             [ps[i] EXCEPT !.porcentaje = calcularPorcentaje(ps[i].monto, total)]]

ajustarPorcentajes(ps, total) ==
    IF Len(ps) = 0 THEN ps
    ELSE LET act == [i \in 1 .. Len(ps) |->
                        [ps[i] EXCEPT !.porcentaje = calcularPorcentaje(ps[i].monto, total)]]
             sumaActual == calcularPorcentajeTotal(act)
             diferencia == redondear(Cien - sumaActual, 1)
             ultimoIndice == Len(act)
         IN  IF Abs(diferencia) > UmbralAjuste
             THEN [act EXCEPT ![ultimoIndice].porcentaje =
                                  redondear(act[ultimoIndice].porcentaje + diferencia, 1)]
             ELSE act

\* variant: the recomputed amounts are cut to whole currency units
ajustarMontos_truncado(ps, total) ==
    IF Len(ps) = 0 THEN ps
    ELSE LET act == [i \in 1 .. Len(ps) |->
                        [ps[i] EXCEPT !.monto =
                            (calcularMonto(ps[i].porcentaje, total) \div multiplicador)
                                * multiplicador]]
             diferencia == total * multiplicador - SumaMontos(act)
         IN  [act EXCEPT ![Len(act)].monto = act[Len(act)].monto + diferencia]

\* variant: the amounts are left as they are
ajustarMontos_identidad(ps, total) == ps

ajustarMontos(ps, total) ==
    IF Len(ps) = 0 THEN ps
    ELSE LET act == [i \in 1 .. Len(ps) |->
                        [ps[i] EXCEPT !.monto = calcularMonto(ps[i].porcentaje, total)]]
             sumaActual == calcularMontoTotal(act)
             diferencia == redondear(total * multiplicador - sumaActual, 1)
             ultimoIndice == Len(act)
         IN  IF Abs(diferencia) > UmbralAjuste
             THEN [act EXCEPT ![ultimoIndice].monto =
                                  redondear(act[ultimoIndice].monto + diferencia, 1)]
             ELSE act

\* ------------------------------------------------------------ validaciones
Valido == [valido |-> TRUE, mensaje |-> ""]
Invalido(m) == [valido |-> FALSE, mensaje |-> m]

\* new Date(a) < new Date(b); a comparison with an invalid date ('' ) is false
FechaMenor(a, b) == a # 0 /\ b # 0 /\ a < b

validarSumaPorcentajes(ps) ==
    Abs(calcularPorcentajeTotal(ps) - Cien) <= MARGEN_ERROR_PORCENTAJE

validarFechaSecuencial(fecha, fechaMinima) ==
    IF FechaMenor(fecha, fechaMinima) THEN Invalido("FECHA_ANTERIOR") ELSE Valido

\* variant: every pago can be paid
validarPuedePagar_siempre(indice, ps) == Valido

\* variant: the pago itself is looked at instead of the one before it
validarPuedePagar_propio(indice, ps) ==
    IF indice = 0 THEN Valido
    ELSE IF ps[indice + 1].estado = "pendiente" THEN Invalido("NO_PUEDE_PAGAR")
    ELSE Valido

\* indice is 0-based as in the source; ps is 1-based
validarPuedePagar(indice, ps) ==
    IF indice = 0 THEN Valido
    ELSE IF ps[indice].estado = "pendiente" THEN Invalido("NO_PUEDE_PAGAR")
    ELSE Valido

validarPuedeEditarPago(pago) ==
    IF pago.estado = "pagado" THEN Invalido("NO_PUEDE_EDITAR") ELSE Valido

\* variant: any positive amount is accepted
validarMontoValido_sinTope(monto, montoDisponible) ==
    IF monto <= 0 THEN Invalido("MONTO_INVALIDO") ELSE Valido

validarMontoValido(monto, montoDisponible) ==
    IF monto <= 0 THEN Invalido("MONTO_INVALIDO")
    ELSE IF monto > montoDisponible THEN Invalido("MONTO_EXCEDIDO")
    ELSE Valido

validarPorcentajeValido(porcentaje, porcentajeDisponible) ==
    IF porcentaje <= 0 \/ porcentaje > Cien THEN Invalido("PORCENTAJE_INVALIDO")
    ELSE IF porcentaje > porcentajeDisponible THEN Invalido("PORCENTAJE_EXCEDIDO")
    ELSE Valido

validarFechaRequerida(fecha) ==
    IF fecha = 0 THEN Invalido("FECHA_REQUERIDA") ELSE Valido

hayPorcentajeDisponible(ps) ==
    calcularPorcentajeTotal(ps) < Cien - MARGEN_ERROR_PORCENTAJE

\* variant: every pago can be deleted
validarPuedeEliminarPago_siempre(pago, totalPagos) == Valido

validarPuedeEliminarPago(pago, totalPagos) ==
    IF totalPagos = 1 THEN Invalido("UNICO_PAGO")
    ELSE IF pago.estado = "pagado" THEN Invalido("PAGO_YA_PAGADO")
    ELSE Valido

validarPagoCompleto(monto, porcentaje, fecha, fechaMinima, montoDisp, porcentajeDisp) ==
    IF ~validarFechaRequerida(fecha).valido THEN validarFechaRequerida(fecha)
    ELSE IF ~validarFechaSecuencial(fecha, fechaMinima).valido
         THEN validarFechaSecuencial(fecha, fechaMinima)
    ELSE IF ~validarMontoValido(monto, montoDisp).valido
         THEN validarMontoValido(monto, montoDisp)
    ELSE IF ~validarPorcentajeValido(porcentaje, porcentajeDisp).valido
         THEN validarPorcentajeValido(porcentaje, porcentajeDisp)
    ELSE Valido

\* ------------------------------------------------------------ state
VARIABLES
    montoTotal,         \* prestamo.montoTotal (currency units)
    pagos,              \* prestamo.pagos
    modalAbierto,       \* useState(false)
    pagoEditando,       \* useState<Pago | null>: << >> is null, <<p>> a snapshot
    posicionInsercion,  \* useState<number | null>: Nulo is null, else 0-based
    hoy,                \* the day obtenerFechaHoy() returns
    reloj,              \* the instant new Date().toISOString() returns next
    sigId,              \* the token generarId() returns next
    ultima              \* the last handler run, its argument and how it ended

vars == <<montoTotal, pagos, modalAbierto, pagoEditando, posicionInsercion,
          hoy, reloj, sigId, ultima>>

Nulo == 0 - 1
\* fechaPagado of a pago that has none (optional property absent)
SinFecha == 0
\* instant of everything that happened before the component was mounted
Pasado == SinFecha + 1

Pago(id, titulo, monto, porcentaje, estado, fechaPago, fechaCreacion, fechaPagado) ==
    [id |-> id, titulo |-> titulo, monto |-> monto, porcentaje |-> porcentaje,
     estado |-> estado, fechaPago |-> fechaPago, fechaCreacion |-> fechaCreacion,
     fechaPagado |-> fechaPagado]

\* pagos.findIndex(p => p.id === idPago), 0-based, -1 if absent
findIndex(ps, idPago) ==
    IF \E i \in 1 .. Len(ps) : ps[i].id = idPago
    THEN (CHOOSE i \in 1 .. Len(ps) :
              ps[i].id = idPago /\ \A j \in 1 .. i - 1 : ps[j].id # idPago) - 1
    ELSE Nulo

\* array.splice(pos, 0, x) and array.splice(pos, 1), pos 0-based
\* variant: the new element is appended
spliceInsertar_alFinal(ps, pos, x) == Append(ps, x)

spliceInsertar(ps, pos, x) ==
    SubSeq(ps, 1, pos) \o <<x>> \o SubSeq(ps, pos + 1, Len(ps))

spliceEliminar(ps, pos) == SubSeq(ps, 1, pos) \o SubSeq(ps, pos + 2, Len(ps))

\* res is "ok", "rechazado" (alert or setError) or "cancelado" (confirm)
Registro(op, indice, res) == [op |-> op, indice |-> indice, res |-> res]

\* ------------------------------------------------------------ stored loans
\* amounts (currency units) of the installments of a stored plan
MontosIniciales == {60, 91}

RECURSIVE SumaSec(_)
SumaSec(s) == IF s = << >> THEN 0 ELSE Head(s) + SumaSec(Tail(s))

SecuenciasDe(S, n) == UNION {[1 .. k -> S] : k \in 0 .. n}

\* a stored plan is a prefix plan [m1..mk] that leaves part of the total
\* unallocated, or that plan completed by one installment taking the rest
MontosDePlan(total, n) ==
    LET parciales == {s \in SecuenciasDe(MontosIniciales, n - 1) : SumaSec(s) < total}
    IN  parciales \cup {Append(s, total - SumaSec(s)) : s \in parciales}

FechasNoDecrecientes(n) ==
    {f \in [1 .. n -> Fechas] : \A i \in 2 .. n : f[i - 1] <= f[i]}

\* paid installments form a prefix of length k; dates are non-decreasing;
\* each percentage is the one calcularPorcentaje gives for the amount
PlanesHasta(total, n) ==
    {[i \in 1 .. Len(m) |->
         Pago(i, "Pago", m[i] * multiplicador,
              calcularPorcentaje(m[i] * multiplicador, total),
              IF i <= k THEN "pagado" ELSE "pendiente",
              f[i], Pasado, IF i <= k THEN Pasado ELSE SinFecha)] :
        m \in MontosDePlan(total, n), k \in 0 .. n, f \in FechasNoDecrecientes(n)}

PlanesAlmacenados(total) == PlanesHasta(total, MaxPagos)

\* the plans whose amounts add up to the loan total, and the empty plan of a
\* loan that was just created
PlanesCompletos(planes, total) ==
    {p \in planes : p = << >> \/ SumaMontos(p) = total * multiplicador}

Montar(parcial) ==
    /\ montoTotal \in Totales
    /\ pagos \in (IF parcial THEN PlanesAlmacenados(montoTotal)
                  ELSE PlanesCompletos(PlanesAlmacenados(montoTotal), montoTotal))
    /\ modalAbierto = FALSE
    /\ pagoEditando = << >>
    /\ posicionInsercion = Nulo
    /\ hoy \in Fechas
    /\ reloj = Pasado + 1
    /\ sigId = Len(pagos) + 1
    /\ ultima = Registro("ninguna", Nulo, "ok")

\* the component is mounted on a loan read from storage
Init == Montar(FALSE)

\* ... on a loan whose plan may leave part of the total unallocated
InitParcial == Montar(TRUE)

\* ------------------------------------------------------------ ContenedorPagos
\* onActualizarPrestamo({...prestamo, pagos: nuevos}) and the record of the run
Actualizar(nuevos, op, indice) ==
    /\ pagos' = nuevos
    /\ ultima' = Registro(op, indice, "ok")

\* a run that returns without calling onActualizarPrestamo
SinCambio(op, indice, res) ==
    /\ pagos' = pagos
    /\ ultima' = Registro(op, indice, res)

\* The render of ContenedorPagos evaluates the fechaMinima prop of the modal,
\* pagos[posicionInsercion - 1].fechaPago when posicionInsercion > 0, whether
\* the modal is open or not.  posicionInsercion outlives the modal; when the
\* sequence has become too short for it the render throws and the component
\* is unmounted: no handler runs any more.
Montado == posicionInsercion = Nulo \/ posicionInsercion <= Len(pagos)

\* variant: the view without pagos is always rendered
tienePagos_nunca == FALSE

tienePagos == Len(pagos) > 0

\* the two buttons that call crearPagoInicial are rendered only in the view
\* without pagos
crearPagoInicial ==
    /\ Montado
    /\ ~tienePagos
    /\ reloj <= MaxReloj
    /\ Actualizar(<<Pago(sigId, "Anticipo", montoTotal * multiplicador, Cien,
                         "pendiente", hoy, reloj, SinFecha)>>, "crear", 0)
    /\ sigId' = sigId + 1
    /\ reloj' = reloj + 1
    /\ UNCHANGED <<montoTotal, modalAbierto, pagoEditando, posicionInsercion, hoy>>

abrirModalEditar(indice) ==
    LET pago == pagos[indice + 1]
        validacion == validarPuedeEditarPago(pago)
    IN  /\ Montado
        /\ IF ~validacion.valido
           THEN /\ SinCambio("abrirEditar", indice, "rechazado")
                /\ UNCHANGED <<pagoEditando, posicionInsercion, modalAbierto>>
           ELSE /\ SinCambio("abrirEditar", indice, "ok")
                /\ pagoEditando' = <<pago>>
                /\ posicionInsercion' = Nulo
                /\ modalAbierto' = TRUE
        /\ UNCHANGED <<montoTotal, hoy, reloj, sigId>>

abrirModalNuevo(posicion) ==
    /\ Montado
    /\ IF ~hayPorcentajeDisponible(pagos)
       THEN /\ SinCambio("abrirNuevo", posicion, "rechazado")
            /\ UNCHANGED <<pagoEditando, posicionInsercion, modalAbierto>>
       ELSE /\ SinCambio("abrirNuevo", posicion, "ok")
            /\ pagoEditando' = << >>
            /\ posicionInsercion' = posicion
            /\ modalAbierto' = TRUE
    /\ UNCHANGED <<montoTotal, hoy, reloj, sigId>>

\* the sequence guardarPago hands to onActualizarPrestamo
guardarPago(ps, editando, posicion, datos, total, id, ahora) ==
    LET indice == IF editando # << >> THEN findIndex(ps, editando[1].id) ELSE Nulo
        actualizados ==
            IF editando # << >>
            THEN IF indice >= 0
                 THEN [ps EXCEPT ![indice + 1] =
                          [@ EXCEPT !.titulo = datos.titulo, !.monto = datos.monto,
                                    !.porcentaje = datos.porcentaje,
                                    !.fechaPago = datos.fechaPago]]
                 ELSE ps
            ELSE IF posicion # Nulo
                 THEN spliceInsertar(ps, posicion,
                          Pago(id, datos.titulo, datos.monto, datos.porcentaje,
                               "pendiente", datos.fechaPago, ahora, SinFecha))
                 ELSE ps
    IN  ajustarMontos(ajustarPorcentajes(actualizados, total), total)

\* the sequence eliminarPago hands to onActualizarPrestamo, indice 0-based
PrimerPendienteAdelante(ps, indice) ==
    IF \E i \in indice + 1 .. Len(ps) - 1 : ps[i + 1].estado = "pendiente"
    THEN CHOOSE i \in indice + 1 .. Len(ps) - 1 :
             /\ ps[i + 1].estado = "pendiente"
             /\ \A j \in indice + 1 .. i - 1 : ps[j + 1].estado # "pendiente"
    ELSE Nulo

PrimerPendienteAtras(ps, indice) ==
    IF \E i \in 0 .. indice - 1 : ps[i + 1].estado = "pendiente"
    THEN CHOOSE i \in 0 .. indice - 1 :
             /\ ps[i + 1].estado = "pendiente"
             /\ \A j \in i + 1 .. indice - 1 : ps[j + 1].estado # "pendiente"
    ELSE Nulo

\* variant: the search backward starts at the first pago
indiceDestinatario_desdeElPrimero(ps, indice) ==
    IF PrimerPendienteAdelante(ps, indice) # Nulo
    THEN PrimerPendienteAdelante(ps, indice)
    ELSE PrimerPendienteAdelante(SubSeq(ps, 1, indice), Nulo)

indiceDestinatario(ps, indice) ==
    IF PrimerPendienteAdelante(ps, indice) # Nulo
    THEN PrimerPendienteAdelante(ps, indice)
    ELSE PrimerPendienteAtras(ps, indice)

eliminarYRedistribuir(ps, indice, total) ==
    LET pagoAEliminar == ps[indice + 1]
        dest == indiceDestinatario(ps, indice)
        transferidos ==
            IF dest >= 0
            THEN [ps EXCEPT ![dest + 1] =
                     [@ EXCEPT !.monto = @ + pagoAEliminar.monto,
                               !.porcentaje = @ + pagoAEliminar.porcentaje]]
            ELSE ps
    IN  ajustarPorcentajes(spliceEliminar(transferidos, indice), total)

eliminarPago(idPago, confirma) ==
    LET indice == findIndex(pagos, idPago)
        validacion == validarPuedeEliminarPago(pagos[indice + 1], Len(pagos))
    IN  /\ Montado
        /\ indice >= 0
        /\ IF ~validacion.valido
           THEN SinCambio("eliminar", indice, "rechazado")
           ELSE IF ~confirma
           THEN SinCambio("eliminar", indice, "cancelado")
           ELSE Actualizar(eliminarYRedistribuir(pagos, indice, montoTotal),
                           "eliminar", indice)
        /\ UNCHANGED <<montoTotal, modalAbierto, pagoEditando, posicionInsercion,
                       hoy, reloj, sigId>>

\* variant: the click toggles the estado
marcarPagado_alterna(pago, ahora) ==
    [pago EXCEPT !.estado = IF @ = "pagado" THEN "pendiente" ELSE "pagado",
                 !.fechaPagado = ahora]

\* variant: the payment also moves the date of the pago to today
marcarPagado_conFecha(pago, ahora) ==
    [pago EXCEPT !.estado = "pagado", !.fechaPagado = ahora, !.fechaPago = hoy]

\* variant: the paid pago is built anew
marcarPagado_recrea(pago, ahora) ==
    [pago EXCEPT !.estado = "pagado", !.fechaPagado = ahora, !.fechaCreacion = ahora]

\* {...pago, estado: 'pagado', fechaPagado: new Date().toISOString()}
marcarPagado(pago, ahora) == [pago EXCEPT !.estado = "pagado", !.fechaPagado = ahora]

marcarComoPagado(idPago) ==
    LET indice == findIndex(pagos, idPago)
        validacion == validarPuedePagar(indice, pagos)
    IN  /\ Montado
        /\ indice >= 0
        /\ reloj <= MaxReloj
        /\ IF ~validacion.valido
           THEN /\ SinCambio("pagar", indice, "rechazado")
                /\ reloj' = reloj
           ELSE /\ Actualizar([pagos EXCEPT ![indice + 1] = marcarPagado(@, reloj)],
                              "pagar", indice)
                /\ reloj' = reloj + 1
        /\ UNCHANGED <<montoTotal, modalAbierto, pagoEditando, posicionInsercion,
                       hoy, sigId>>

actualizarFecha(idPago, nuevaFecha) ==
    LET indice == findIndex(pagos, idPago)
    IN  /\ Montado
        /\ indice >= 0
        /\ Actualizar([pagos EXCEPT ![indice + 1] = [@ EXCEPT !.fechaPago = nuevaFecha]],
                      "fecha", indice)
        /\ UNCHANGED <<montoTotal, modalAbierto, pagoEditando, posicionInsercion,
                       hoy, reloj, sigId>>

\* obtenerFechaMinimaParaPago(indice), indice 0-based
obtenerFechaMinimaParaPago(indice) ==
    IF indice = 0 THEN hoy ELSE pagos[indice].fechaPago

\* ------------------------------------------------------------ ModalEditarPago
\* props ContenedorPagos passes to the modal
montoDisponible == calcularMontoRestante(pagos, montoTotal)

porcentajeDisponible == calcularPorcentajeRestante(pagos)

fechaMinimaModal ==
    IF posicionInsercion # Nulo /\ posicionInsercion > 0
    THEN obtenerFechaMinimaParaPago(posicionInsercion)
    ELSE hoy

montoOriginal == IF pagoEditando # << >> THEN pagoEditando[1].monto ELSE 0

porcentajeOriginal == IF pagoEditando # << >> THEN pagoEditando[1].porcentaje ELSE 0

\* the fields when the modal opens: the pago's values (useEffect), or a blank
\* form for a new pago (a blank number field is read as 0 here)
CamposIniciales ==
    IF pagoEditando # << >>
    THEN [titulo |-> pagoEditando[1].titulo, monto |-> pagoEditando[1].monto,
          porcentaje |-> pagoEditando[1].porcentaje, fecha |-> pagoEditando[1].fechaPago]
    ELSE [titulo |-> "", monto |-> 0, porcentaje |-> 0, fecha |-> 0]

manejarCambioMonto(campos, nuevoMonto) ==
    IF nuevoMonto > 0 /\ nuevoMonto <= montoDisponible + montoOriginal
    THEN [campos EXCEPT !.monto = nuevoMonto,
                        !.porcentaje = calcularPorcentaje(nuevoMonto, montoTotal)]
    ELSE [campos EXCEPT !.monto = nuevoMonto]

manejarCambioPorcentaje(campos, nuevoPorcentaje) ==
    IF nuevoPorcentaje > 0 /\ nuevoPorcentaje <= porcentajeDisponible + porcentajeOriginal
    THEN [campos EXCEPT !.porcentaje = nuevoPorcentaje,
                        !.monto = calcularMonto(nuevoPorcentaje, montoTotal)]
    ELSE [campos EXCEPT !.porcentaje = nuevoPorcentaje]

\* SelectorFecha.manejarCambio: the change is dropped when the date is before
\* the minimum; no check when no minimum is given
SelectorAcepta(nuevaFecha, fechaMinima) ==
    fechaMinima = 0 \/ validarFechaSecuencial(nuevaFecha, fechaMinima).valido

\* field contents the user can have on screen when pressing Guardar: the
\* initial ones, optionally changed by one edit of the amount or of the
\* percentage and by one of the date
CamposPosibles ==
    LET numericos ==
            {CamposIniciales}
            \cup {manejarCambioMonto(CamposIniciales, m * multiplicador) : m \in MontosEntrada}
            \cup {manejarCambioPorcentaje(CamposIniciales, p * multiplicador) :
                     p \in PorcentajesEntrada}
    IN  numericos \cup
            {[c EXCEPT !.fecha = f] :
                c \in numericos, f \in {g \in Fechas : SelectorAcepta(g, fechaMinimaModal)}}

\* variant: the error is shown but the function does not return
manejarGuardar_sinRetorno(campos) ==
    LET editando == pagoEditando # << >>
        validacion == validarPagoCompleto(campos.monto, campos.porcentaje, campos.fecha,
                          fechaMinimaModal, montoDisponible + montoOriginal,
                          porcentajeDisponible + porcentajeOriginal)
        datos == [titulo |-> IF campos.titulo # "" THEN campos.titulo
                             ELSE IF editando THEN pagoEditando[1].titulo
                             ELSE "Nuevo Pago",
                  monto |-> campos.monto, porcentaje |-> campos.porcentaje,
                  fechaPago |-> campos.fecha]
        op == IF editando THEN "editar" ELSE "insertar"
        indice == IF editando THEN findIndex(pagos, pagoEditando[1].id)
                  ELSE posicionInsercion
        inserta == ~editando /\ posicionInsercion # Nulo
    IN  /\ IF ~validacion.valido
           THEN /\ pagos' = guardarPago(pagos, pagoEditando, posicionInsercion, datos,
                                        montoTotal, sigId, reloj)
                /\ ultima' = Registro(op, indice, "rechazado")
                /\ UNCHANGED <<modalAbierto, pagoEditando, reloj, sigId>>
           ELSE /\ inserta => reloj <= MaxReloj
                /\ Actualizar(guardarPago(pagos, pagoEditando, posicionInsercion, datos,
                                          montoTotal, sigId, reloj), op, indice)
                /\ modalAbierto' = FALSE
                /\ pagoEditando' = << >>
                /\ reloj' = IF inserta THEN reloj + 1 ELSE reloj
                /\ sigId' = IF inserta THEN sigId + 1 ELSE sigId
        /\ UNCHANGED <<montoTotal, posicionInsercion, hoy>>

manejarGuardar(campos) ==
    LET editando == pagoEditando # << >>
        validacion == validarPagoCompleto(campos.monto, campos.porcentaje, campos.fecha,
                          fechaMinimaModal, montoDisponible + montoOriginal,
                          porcentajeDisponible + porcentajeOriginal)
        datos == [titulo |-> IF campos.titulo # "" THEN campos.titulo
                             ELSE IF editando THEN pagoEditando[1].titulo
                             ELSE "Nuevo Pago",
                  monto |-> campos.monto, porcentaje |-> campos.porcentaje,
                  fechaPago |-> campos.fecha]
        op == IF editando THEN "editar" ELSE "insertar"
        indice == IF editando THEN findIndex(pagos, pagoEditando[1].id)
                  ELSE posicionInsercion
        inserta == ~editando /\ posicionInsercion # Nulo
    IN  /\ IF ~validacion.valido
           THEN /\ SinCambio(op, indice, "rechazado")
                /\ UNCHANGED <<modalAbierto, pagoEditando, reloj, sigId>>
           ELSE /\ inserta => reloj <= MaxReloj
                /\ Actualizar(guardarPago(pagos, pagoEditando, posicionInsercion, datos,
                                          montoTotal, sigId, reloj), op, indice)
                /\ modalAbierto' = FALSE
                /\ pagoEditando' = << >>
                /\ reloj' = IF inserta THEN reloj + 1 ELSE reloj
                /\ sigId' = IF inserta THEN sigId + 1 ELSE sigId
        /\ UNCHANGED <<montoTotal, posicionInsercion, hoy>>

\* the Guardar button exists only while the modal is open
clickGuardar ==
    /\ Montado
    /\ modalAbierto
    /\ \E c \in CamposPosibles : manejarGuardar(c)

\* onCerrar: Cancelar, Escape, the close button or a click on the backdrop
\* (Modal.tsx); it sets modalAbierto only.  pagoEditando keeps its value in the
\* source, but nothing reads it until abrirModalEditar or abrirModalNuevo
\* assigns it again, so the closed modal is represented with << >>.
\* posicionInsercion is read by the render (Montado) and keeps its value.
cerrarModal ==
    /\ Montado
    /\ modalAbierto
    /\ modalAbierto' = FALSE
    /\ pagoEditando' = << >>
    /\ ultima' = Registro("cerrar", Nulo, "ok")
    /\ UNCHANGED <<montoTotal, pagos, posicionInsercion, hoy, reloj, sigId>>

\* ------------------------------------------------------------ TarjetaPago
Indices == 0 .. Len(pagos) - 1

esPagado(indice) == pagos[indice + 1].estado = "pagado"

puedeEditar(indice) == pagos[indice + 1].estado = "pendiente"

puedeMarcarPagado(indice) ==
    /\ pagos[indice + 1].estado = "pendiente"
    /\ (IF indice = 0 THEN TRUE ELSE pagos[indice].estado = "pagado")

\* variant: onMarcarPagado is called on every click
ClickEstadoHabilitado_siempre(indice) == TRUE

\* manejarClickEstado calls onMarcarPagado only under this condition
ClickEstadoHabilitado(indice) == ~esPagado(indice) /\ puedeMarcarPagado(indice)

manejarClickEstado(indice) ==
    /\ ClickEstadoHabilitado(indice)
    /\ marcarComoPagado(pagos[indice + 1].id)

\* the edit button is rendered only when puedeEditar
clickEditar(indice) ==
    /\ puedeEditar(indice)
    /\ abrirModalEditar(indice)

\* the delete button is rendered only when puedeEditar and not esPrimero
clickEliminar(indice, confirma) ==
    /\ puedeEditar(indice)
    /\ indice # 0
    /\ eliminarPago(pagos[indice + 1].id, confirma)

\* the compact SelectorFecha of the card: disabled unless puedeEditar, and
\* manejarCambio drops a date before fechaMinima
cambiarFechaTarjeta(indice, nuevaFecha) ==
    /\ puedeEditar(indice)
    /\ SelectorAcepta(nuevaFecha, obtenerFechaMinimaParaPago(indice))
    /\ actualizarFecha(pagos[indice + 1].id, nuevaFecha)

\* BotonAgregarPago at posicion: disabled when there is no percentage left
clickAgregar(posicion) ==
    /\ hayPorcentajeDisponible(pagos)
    /\ abrirModalNuevo(posicion)

\* midnight passes
pasaDia ==
    /\ Montado
    /\ hoy + 1 \in Fechas
    /\ hoy' = hoy + 1
    /\ ultima' = Registro("dia", Nulo, "ok")
    /\ UNCHANGED <<montoTotal, pagos, modalAbierto, pagoEditando, posicionInsercion,
                   reloj, sigId>>

\* ------------------------------------------------------------ specifications
\* The application as the user drives it with the pointer, on a loan whose
\* plan is complete or empty.  The overlay of the open modal (fixed inset-0)
\* covers the cards.  The insert buttons are not among the actions:
\* BotonAgregarPago is disabled whenever hayPorcentajeDisponible is false,
\* which is the case in every state with a complete plan.
Next ==
    \/ ~modalAbierto /\ crearPagoInicial
    \/ ~modalAbierto /\ \E i \in Indices : clickEditar(i)
    \/ clickGuardar
    \/ cerrarModal
    \/ ~modalAbierto /\ \E i \in Indices, c \in BOOLEAN : clickEliminar(i, c)
    \/ ~modalAbierto /\ \E i \in Indices : manejarClickEstado(i)
    \/ ~modalAbierto /\ \E i \in Indices, f \in Fechas : cambiarFechaTarjeta(i, f)
    \/ pasaDia

Spec == Init /\ [][Next]_vars

\* The application driven with the keyboard: Modal.tsx does not keep the
\* focus inside the open modal, so the controls of the cards stay reachable
\* (Tab, Enter) while it is open.
NextTeclado ==
    \/ crearPagoInicial
    \/ \E i \in Indices : clickEditar(i)
    \/ clickGuardar
    \/ cerrarModal
    \/ \E i \in Indices, c \in BOOLEAN : clickEliminar(i, c)
    \/ \E i \in Indices : manejarClickEstado(i)
    \/ \E i \in Indices, f \in Fechas : cambiarFechaTarjeta(i, f)
    \/ pasaDia

SpecTeclado == Init /\ [][NextTeclado]_vars

\* The handlers ContenedorPagos hands to its children, run for any card, any
\* insertion point and any date while the modal is closed: only the
\* handlers' own checks apply.
\* the modal for a new pago is opened only on plans of fewer than n pagos
Cabe(n) == hayPorcentajeDisponible(pagos) => Len(pagos) < n

NextOrq ==
    \/ ~modalAbierto /\ crearPagoInicial
    \/ ~modalAbierto /\ \E i \in Indices : abrirModalEditar(i)
    \/ ~modalAbierto /\ Cabe(MaxPagos) /\ \E pos \in 1 .. Len(pagos) : abrirModalNuevo(pos)
    \/ clickGuardar
    \/ cerrarModal
    \/ ~modalAbierto /\ \E i \in Indices, c \in BOOLEAN : eliminarPago(pagos[i + 1].id, c)
    \/ ~modalAbierto /\ \E i \in Indices : marcarComoPagado(pagos[i + 1].id)
    \/ ~modalAbierto /\ \E i \in Indices, f \in Fechas : actualizarFecha(pagos[i + 1].id, f)
    \/ pasaDia

SpecOrq == Init /\ [][NextOrq]_vars

\* The same handlers on a loan whose plan may be incomplete, so that the
\* insertion of a new pago is possible.
SpecParcial == InitParcial /\ [][NextOrq]_vars

\* validarPuedePagar applied to any sequence of estados and any index
PagoDeEstado(id, estado) ==
    Pago(id, "Pago", 0, 0, estado, 1, Pasado,
         IF estado = "pagado" THEN Pasado ELSE SinFecha)

InitPagar ==
    /\ montoTotal \in Totales
    /\ pagos \in {[i \in 1 .. n |-> PagoDeEstado(i, es[i])] :
                    es \in [1 .. MaxEstados -> {"pendiente", "pagado"}],
                    n \in 1 .. MaxEstados}
    /\ modalAbierto = FALSE
    /\ pagoEditando = << >>
    /\ posicionInsercion = Nulo
    /\ hoy = 1
    /\ reloj = Pasado + 1
    /\ sigId = Len(pagos) + 1
    /\ ultima = Registro("ninguna", Nulo, "ok")

consultarPuedePagar(indice) ==
    /\ ultima' = Registro("puedePagar", indice,
                          IF validarPuedePagar(indice, pagos).valido
                          THEN "ok" ELSE "rechazado")
    /\ UNCHANGED <<montoTotal, pagos, modalAbierto, pagoEditando, posicionInsercion,
                   hoy, reloj, sigId>>

NextPagar == \E i \in Indices : consultarPuedePagar(i)

SpecPagar == InitPagar /\ [][NextPagar]_vars

\* eliminarPago and marcarComoPagado on complete plans of up to MaxPlan pagos
InitEliminar ==
    /\ montoTotal \in Totales
    /\ pagos \in PlanesCompletos(PlanesHasta(montoTotal, MaxPlan), montoTotal)
    /\ modalAbierto = FALSE
    /\ pagoEditando = << >>
    /\ posicionInsercion = Nulo
    /\ hoy \in Fechas
    /\ reloj = Pasado + 1
    /\ sigId = Len(pagos) + 1
    /\ ultima = Registro("ninguna", Nulo, "ok")

NextEliminar ==
    \/ \E i \in Indices : marcarComoPagado(pagos[i + 1].id)
    \/ \E i \in Indices, confirma \in BOOLEAN : eliminarPago(pagos[i + 1].id, confirma)

SpecEliminar == InitEliminar /\ [][NextEliminar]_vars

\* The handlers on a loan that has no pago yet, for several totals.
TotalesVacio == {MONTO_TOTAL_INICIAL, 200, 1000}

InitVacio ==
    /\ montoTotal \in TotalesVacio
    /\ pagos = << >>
    /\ modalAbierto = FALSE
    /\ pagoEditando = << >>
    /\ posicionInsercion = Nulo
    /\ hoy \in Fechas
    /\ reloj = Pasado + 1
    /\ sigId = 1
    /\ ultima = Registro("ninguna", Nulo, "ok")

SpecVacio == InitVacio /\ [][NextOrq]_vars

\* The handlers on plans of pendiente pagos that may be incomplete and may
\* grow to MaxPlan pagos, so that a pago is inserted between two others.
InitOrden ==
    /\ montoTotal = MONTO_TOTAL_INICIAL
    /\ pagos \in {p \in PlanesHasta(montoTotal, MaxPlan) :
                     \A i \in 1 .. Len(p) : p[i].estado = "pendiente"}
    /\ modalAbierto = FALSE
    /\ pagoEditando = << >>
    /\ posicionInsercion = Nulo
    /\ hoy = 1
    /\ reloj = Pasado + 1
    /\ sigId = Len(pagos) + 1
    /\ ultima = Registro("ninguna", Nulo, "ok")

NextOrden ==
    \/ ~modalAbierto /\ \E i \in Indices : abrirModalEditar(i)
    \/ ~modalAbierto /\ Cabe(MaxPlan) /\ \E pos \in 1 .. Len(pagos) : abrirModalNuevo(pos)
    \/ clickGuardar
    \/ cerrarModal
    \/ ~modalAbierto /\ \E i \in Indices, c \in BOOLEAN : eliminarPago(pagos[i + 1].id, c)
    \/ ~modalAbierto /\ \E i \in Indices : marcarComoPagado(pagos[i + 1].id)
    \/ ~modalAbierto /\ \E i \in Indices, f \in Fechas : actualizarFecha(pagos[i + 1].id, f)

SpecOrden == InitOrden /\ [][NextOrden]_vars

\* The worked examples: the loan of 182 that has no pago yet, and the loan
\* of 200 with two pendiente pagos of 100; the handlers are called for any
\* pago while the modal is closed, and the form is saved with a typed title,
\* a typed amount and a picked date.
MontosEscenario == {70, 91}

TitulosEscenario == {"", "Cuota"}

InitEscenarios ==
    /\ \/ montoTotal = MONTO_TOTAL_INICIAL /\ pagos = << >>
       \/ /\ montoTotal = 200
          /\ pagos = [i \in 1 .. 2 |->
                        Pago(i, "Pago", 100 * multiplicador, 50 * multiplicador,
                             "pendiente", 1, Pasado, SinFecha)]
    /\ modalAbierto = FALSE
    /\ pagoEditando = << >>
    /\ posicionInsercion = Nulo
    /\ hoy = 1
    /\ reloj = Pasado + 1
    /\ sigId = Len(pagos) + 1
    /\ ultima = Registro("ninguna", Nulo, "ok")

CamposEscenario ==
    LET numericos ==
            {CamposIniciales}
            \cup {manejarCambioMonto(CamposIniciales, m * multiplicador) :
                     m \in MontosEscenario}
        fechas == {f \in Fechas : SelectorAcepta(f, fechaMinimaModal)}
    IN  {[c EXCEPT !.titulo = IF t = "" THEN @ ELSE t] :
            c \in numericos \cup {[n EXCEPT !.fecha = f] : n \in numericos, f \in fechas},
            t \in TitulosEscenario}

guardarEscenario ==
    /\ Montado
    /\ modalAbierto
    /\ \E c \in CamposEscenario : manejarGuardar(c)

NextEscenarios ==
    \/ ~modalAbierto /\ crearPagoInicial
    \/ ~modalAbierto /\ \E i \in Indices : abrirModalEditar(i)
    \/ ~modalAbierto /\ Cabe(MaxPagos) /\ \E pos \in 1 .. Len(pagos) : abrirModalNuevo(pos)
    \/ guardarEscenario
    \/ cerrarModal
    \/ ~modalAbierto /\ \E i \in Indices, c \in BOOLEAN : eliminarPago(pagos[i + 1].id, c)
    \/ ~modalAbierto /\ \E i \in Indices : marcarComoPagado(pagos[i + 1].id)

SpecEscenarios == InitEscenarios /\ [][NextEscenarios]_vars

\* ajustarPorcentajes and ajustarMontos as functions: they are applied to
\* sequences of up to MaxPagos pagos whose amounts are nothing, half the
\* total (possibly off by the 0.001 below which no correction is made), a
\* stored amount, what it leaves of the total, or the total, and whose
\* percentages are those of such amounts; the first pago may be pagado.
TotalesAjuste == {MONTO_TOTAL_INICIAL, 200}

Desvios == {0 - UmbralAjuste, 0, UmbralAjuste}

MontoAjuste == 60

MontosAjuste(total) ==
    {0, total * multiplicador, MontoAjuste * multiplicador,
     (total - MontoAjuste) * multiplicador}
    \cup {(total * multiplicador) \div 2 + d : d \in Desvios}

PorcentajesAjuste(total) ==
    {0, Cien, calcularPorcentaje(MontoAjuste * multiplicador, total),
     calcularPorcentaje((total - MontoAjuste) * multiplicador, total)}
    \cup {Cien \div 2 + d : d \in Desvios}

InitAjustar ==
    /\ montoTotal \in TotalesAjuste
    /\ \E n \in 0 .. MaxPagos, k \in 0 .. 1 :
           \E m \in [1 .. n -> MontosAjuste(montoTotal)],
              p \in [1 .. n -> PorcentajesAjuste(montoTotal)] :
               pagos = [i \in 1 .. n |->
                           Pago(i, "Pago", m[i], p[i],
                                IF i <= k THEN "pagado" ELSE "pendiente",
                                1, Pasado, IF i <= k THEN Pasado ELSE SinFecha)]
    /\ modalAbierto = FALSE
    /\ pagoEditando = << >>
    /\ posicionInsercion = Nulo
    /\ hoy = 1
    /\ reloj = Pasado + 1
    /\ sigId = Len(pagos) + 1
    /\ ultima = Registro("ninguna", Nulo, "ok")

Aplicar(nuevos, op) ==
    /\ Actualizar(nuevos, op, Nulo)
    /\ UNCHANGED <<montoTotal, modalAbierto, pagoEditando, posicionInsercion, hoy,
                   reloj, sigId>>

aplicarAjustarPorcentajes ==
    Aplicar(ajustarPorcentajes(pagos, montoTotal), "ajustarPorcentajes")

aplicarAjustarMontos == Aplicar(ajustarMontos(pagos, montoTotal), "ajustarMontos")

\* the two passes of guardarPago and eliminarPago
aplicarAmbos ==
    Aplicar(ajustarMontos(ajustarPorcentajes(pagos, montoTotal), montoTotal),
            "ajustarAmbos")

NextAjustar ==
    \/ aplicarAjustarPorcentajes
    \/ aplicarAjustarMontos
    \/ aplicarAmbos

SpecAjustar == InitAjustar /\ [][NextAjustar]_vars

\* calcularPorcentaje and calcularMonto as functions: they are applied to an
\* amount between 0 and the total, for several totals.  The amounts are the
\* multiples of total / Partes, the first units above 0 and the last units
\* below the total.
TotalesCalculo == {1, 7, PORCENTAJE_TOTAL, MONTO_TOTAL_INICIAL, 1000}

Partes == 12

MontosCalculo(total) ==
    {(k * total * multiplicador) \div Partes : k \in 0 .. Partes}
    \cup (0 .. Partes)
    \cup {total * multiplicador - d : d \in 0 .. Partes}

InitCalculo ==
    /\ montoTotal \in TotalesCalculo
    /\ \E a \in MontosCalculo(montoTotal) :
           pagos = <<Pago(1, "Pago", a, 0, "pendiente", 1, Pasado, SinFecha)>>
    /\ modalAbierto = FALSE
    /\ pagoEditando = << >>
    /\ posicionInsercion = Nulo
    /\ hoy = 1
    /\ reloj = Pasado + 1
    /\ sigId = Len(pagos) + 1
    /\ ultima = Registro("ninguna", Nulo, "ok")

aplicarCalcularPorcentaje ==
    Aplicar([pagos EXCEPT ![1].porcentaje = calcularPorcentaje(pagos[1].monto, montoTotal)],
            "calcularPorcentaje")

aplicarCalcularMonto ==
    Aplicar([pagos EXCEPT ![1].monto = calcularMonto(pagos[1].porcentaje, montoTotal)],
            "calcularMonto")

NextCalculo ==
    \/ aplicarCalcularPorcentaje
    \/ aplicarCalcularMonto

SpecCalculo == InitCalculo /\ [][NextCalculo]_vars

\* ------------------------------------------------------------ properties
Completada(ops) == ultima.res = "ok" /\ ultima.op \in ops

MontosCompletos(ps) ==
    Abs(SumaMontos(ps) - montoTotal * multiplicador) <= MARGEN_ERROR_PORCENTAJE

PorcentajesCompletos(ps) == Abs(SumaPorcentajes(ps) - Cien) <= MARGEN_ERROR_PORCENTAJE

Coherente(pago) ==
    Abs(pago.porcentaje * montoTotal - pago.monto * PORCENTAJE_TOTAL)
        <= MARGEN_ERROR_PORCENTAJE * montoTotal

FechasOrdenadas(ps) == \A i \in 2 .. Len(ps) : ps[i - 1].fechaPago <= ps[i].fechaPago

PagadosPrimero(ps) ==
    \A i \in 1 .. Len(ps), j \in 1 .. Len(ps) :
        (i < j /\ ps[j].estado = "pagado") => ps[i].estado = "pagado"

Mutaciones == {"crear", "insertar", "editar", "pagar", "fecha", "eliminar"}

C2_SumaMontos ==
    Completada({"insertar", "editar", "eliminar"}) => MontosCompletos(pagos)

\* C3: after every completed mutation each pago's percentage is its amount
\* over the loan total times 100, within 0.01.
C3_Coherencia ==
    Completada(Mutaciones) => \A i \in 1 .. Len(pagos) : Coherente(pagos[i])

\* C4: after every completed mutation the due dates are non-decreasing by index.
C4_FechasOrdenadas == Completada(Mutaciones) => FechasOrdenadas(pagos)

\* C5: marcarComoPagado turns the pago at index i to pagado only if i = 0 or
\* the pago at i - 1 is pagado; otherwise the call is rejected and nothing
\* changes.
C5_PagarEnOrden ==
    [][/\ ultima'.op = "pagar" =>
            LET i == ultima'.indice
            IN  IF i = 0 \/ pagos[i].estado = "pagado"
                THEN TRUE
                ELSE /\ ultima'.res = "rechazado"
                     /\ pagos' = pagos
        /\ \A k \in 1 .. Len(pagos), j \in 1 .. Len(pagos') :
              (/\ pagos[k].id = pagos'[j].id
               /\ pagos[k].estado = "pendiente"
               /\ pagos'[j].estado = "pagado")
                  => /\ ultima' = Registro("pagar", k - 1, "ok")
                     /\ IF k = 1 THEN TRUE ELSE pagos[k - 1].estado = "pagado"]_vars

\* a call for the second pago was rejected
C5_Testigo ==
    /\ ultima = Registro("pagar", 1, "rechazado")
    /\ pagos[1].estado = "pendiente"
    /\ pagos[2].estado = "pendiente"

\* C6 as stated: validarPuedePagar rejects whenever some pago before index i
\* is pendiente, and accepts when all of them are pagado.
C6_CualquierAnterior ==
    ultima.op = "puedePagar" =>
        LET i == ultima.indice
            algunoPendiente == \E j \in 1 .. i : pagos[j].estado = "pendiente"
        IN  /\ algunoPendiente => ultima.res = "rechazado"
            /\ ~algunoPendiente => ultima.res = "ok"

\* C6 amended: on sequences whose paid pagos come first, validarPuedePagar
\* rejects whenever some pago before index i is pendiente and accepts when
\* all of them are pagado.
C6_PagadosPrimero == PagadosPrimero(pagos) => C6_CualquierAnterior

\* the third pago was asked for while the first is pagado and the second is not
C6_Testigo ==
    /\ ultima.op = "puedePagar"
    /\ ultima.indice = 2
    /\ PagadosPrimero(pagos)
    /\ pagos[1].estado = "pagado"
    /\ pagos[2].estado = "pendiente"

\* C7: a pago that is pagado stays pagado through every operation.
C7_PagadoNoRevierte ==
    [][\A k \in 1 .. Len(pagos), j \in 1 .. Len(pagos') :
         (pagos[k].id = pagos'[j].id /\ pagos[k].estado = "pagado")
             => pagos'[j].estado = "pagado"]_vars

\* an edit completed on a plan that has a paid pago
C7_Testigo ==
    /\ Completada({"editar"})
    /\ \E k \in 1 .. Len(pagos) : pagos[k].estado = "pagado"

\* C8: fechaPagado is written once, in the step that turns the pago from
\* pendiente to pagado; a click on the estado of a pago that is already
\* pagado leaves its fechaPagado as it was.
C8_FechaPagadoUnaVez ==
    [][\A k \in 1 .. Len(pagos), j \in 1 .. Len(pagos') :
         (pagos[k].id = pagos'[j].id /\ pagos[k].fechaPagado # pagos'[j].fechaPagado)
             => /\ pagos[k].estado = "pendiente"
                /\ pagos'[j].estado = "pagado"
                /\ pagos[k].fechaPagado = SinFecha]_vars

\* a pago was paid in this session and another instant was read afterwards
C8_Testigo ==
    \E k \in 1 .. Len(pagos) :
        /\ pagos[k].fechaPagado > Pasado
        /\ reloj > pagos[k].fechaPagado + 1

PendientesEntre(ps, desde, hasta) ==
    {k \in desde .. hasta : ps[k + 1].estado = "pendiente"}

Minimo(S) == CHOOSE x \in S : \A y \in S : x <= y

Maximo(S) == CHOOSE x \in S : \A y \in S : x >= y

\* C9: a completed delete of the pago at index i with amount A and percentage
\* P gives A and P to the first pendiente pago after i, or else to the pendiente
\* pago with the largest index before i; the sums of amounts and of
\* percentages stay as they were.
C9_Redistribucion ==
    [][(ultima'.op = "eliminar" /\ ultima'.res = "ok") =>
         LET i == ultima'.indice
             adelante == PendientesEntre(pagos, i + 1, Len(pagos) - 1)
             atras == PendientesEntre(pagos, 0, i - 1)
             destino == IF adelante # {} THEN Minimo(adelante) ELSE Maximo(atras)
             nuevo == IF destino < i THEN destino ELSE destino - 1
         IN  (adelante \cup atras # {}) =>
               /\ Len(pagos') = Len(pagos) - 1
               /\ \A k \in 0 .. Len(pagos) - 1 :
                    k # i => pagos'[IF k < i THEN k + 1 ELSE k].id = pagos[k + 1].id
               /\ pagos'[nuevo + 1].monto = pagos[destino + 1].monto + pagos[i + 1].monto
               /\ Abs(pagos'[nuevo + 1].porcentaje
                      - (pagos[destino + 1].porcentaje + pagos[i + 1].porcentaje))
                    <= MARGEN_ERROR_PORCENTAJE
               /\ \A k \in 0 .. Len(pagos) - 1 :
                    (k # i /\ k # destino) =>
                       pagos'[IF k < i THEN k + 1 ELSE k].monto = pagos[k + 1].monto
               /\ SumaMontos(pagos') = SumaMontos(pagos)
               /\ Abs(SumaPorcentajes(pagos') - SumaPorcentajes(pagos))
                    <= MARGEN_ERROR_PORCENTAJE]_vars

\* the last of three pendiente pagos was deleted
C9_Testigo ==
    /\ ultima = Registro("eliminar", 2, "ok")
    /\ Len(pagos) = 2
    /\ pagos[1].estado = "pendiente"
    /\ pagos[2].estado = "pendiente"

\* C10: a confirmed delete of a pendiente pago whose every other pago is
\* pagado is rejected and the sequence stays as it was.
C10_SinDestinatario ==
    [][(ultima'.op = "eliminar" /\ ultima'.res # "cancelado") =>
         LET i == ultima'.indice
         IN  (/\ Len(pagos) > 1
              /\ pagos[i + 1].estado = "pendiente"
              /\ \A k \in 1 .. Len(pagos) : k # i + 1 => pagos[k].estado = "pagado")
                 => /\ ultima'.res = "rechazado"
                    /\ pagos' = pagos]_vars

\* C11: a delete of the only pago, or of a pago that is pagado, is rejected
\* and changes nothing; a sequence that has a pago never becomes empty.
C11_EliminarRechazado ==
    [][/\ (/\ ultima'.op = "eliminar"
           /\ (Len(pagos) = 1 \/ pagos[ultima'.indice + 1].estado = "pagado"))
              => (ultima'.res = "rechazado" /\ pagos' = pagos)
       /\ (Len(pagos) > 0 => Len(pagos') > 0)]_vars

\* the delete of the only pago was asked for
C11_Testigo ==
    /\ ultima.op = "eliminar"
    /\ ultima.res = "rechazado"
    /\ Len(pagos) = 1

MismosCampos(p, q) ==
    /\ p.titulo = q.titulo
    /\ p.monto = q.monto
    /\ p.porcentaje = q.porcentaje
    /\ p.fechaPago = q.fechaPago

\* C12: a completed edit does not write the titulo, monto, porcentaje or
\* fechaPago of a pago that is pagado when the edit is saved, whatever was
\* marked as paid between the opening of the modal and the save.
C12_EditarSoloPendiente ==
    [][(Completada({"editar"})' /\ ultima'.indice >= 0) =>
         LET i == ultima'.indice + 1
         IN  pagos[i].estado = "pagado" => MismosCampos(pagos[i], pagos'[i])]_vars

\* C13: a completed insert, edit or delete leaves the monto and the
\* porcentaje of every pago that is pagado as they were (within 0.01: both
\* are recomputed and rounded by ajustarPorcentajes / ajustarMontos).
C13_PagadoIntacto ==
    [][Completada({"insertar", "editar", "eliminar"})' =>
         \A k \in 1 .. Len(pagos), j \in 1 .. Len(pagos') :
            (pagos[k].id = pagos'[j].id /\ pagos[k].estado = "pagado")
                => /\ Abs(pagos'[j].monto - pagos[k].monto) <= MARGEN_ERROR_PORCENTAJE
                   /\ Abs(pagos'[j].porcentaje - pagos[k].porcentaje)
                        <= MARGEN_ERROR_PORCENTAJE]_vars

\* C14: a call that is rejected (by validarPuedePagar, validarPuedeEliminarPago,
\* validarPuedeEditarPago, hayPorcentajeDisponible or validarPagoCompleto)
\* leaves the sequence of pagos exactly as it was.
C14_RechazoSinCambio ==
    [][(/\ ultima'.res = "rechazado"
        /\ ultima'.op \in {"pagar", "eliminar", "abrirEditar", "abrirNuevo",
                           "editar", "insertar"})
          => pagos' = pagos]_vars

\* Guardar was pressed on an insert form that validarPagoCompleto rejects
C14_Testigo ==
    /\ ultima.op = "insertar"
    /\ ultima.res = "rechazado"
    /\ modalAbierto

MontosYPorcentajes(ps) == [i \in 1 .. Len(ps) |-> <<ps[i].monto, ps[i].porcentaje>>]

EnUnidades(pares) ==
    [i \in 1 .. Len(pares) |->
        <<pares[i][1] * multiplicador, pares[i][2] * multiplicador>>]

Datos(titulo, monto, porcentaje, fechaPago) ==
    [titulo |-> titulo, monto |-> monto * multiplicador,
     porcentaje |-> porcentaje * multiplicador, fechaPago |-> fechaPago]

\* C15: on the loan of 182, crearPagoInicial gives one pago of 182 / 100 %;
\* an insert at index 1 of 91 (50 %) is then possible and gives two pagos of
\* 91 / 50 %.
C15_Escenario1 ==
    montoTotal = MONTO_TOTAL_INICIAL =>
        /\ Completada({"crear"}) =>
              MontosYPorcentajes(pagos) = EnUnidades(<< <<MONTO_TOTAL_INICIAL, 100>> >>)
        /\ MontosYPorcentajes(pagos) = EnUnidades(<< <<MONTO_TOTAL_INICIAL, 100>> >>) =>
              /\ hayPorcentajeDisponible(pagos)
              /\ MontosYPorcentajes(
                     guardarPago(pagos, << >>, 1, Datos("Nuevo Pago", 91, 50, hoy),
                                 montoTotal, sigId, reloj))
                   = EnUnidades(<< <<91, 50>>, <<91, 50>> >>)

\* the edit of the first of the two pagos of 100 (loan of 200) to 70 is saved
EditaPrimeroA70 ==
    /\ montoTotal = 200
    /\ MontosYPorcentajes(pagos) = EnUnidades(<< <<100, 50>>, <<100, 50>> >>)
    /\ Completada({"editar"})'
    /\ ultima'.indice = 0
    /\ pagos'[1].monto = 70 * multiplicador

\* C16 as stated: the edit gives 70 / 35 % and 100 / 65 %, and the totals stay
\* 200 and 100 %.
C16_Escenario2 ==
    [][EditaPrimeroA70 =>
         /\ MontosYPorcentajes(pagos') = EnUnidades(<< <<70, 35>>, <<100, 65>> >>)
         /\ SumaMontos(pagos') = 200 * multiplicador
         /\ SumaPorcentajes(pagos') = Cien]_vars

\* C16 amended: the edit gives 70 / 35 % and 130 / 65 % (the amount of the last
\* pago is recomputed from its corrected percentage), and the totals stay 200
\* and 100 %.
C16_Escenario2Recalculado ==
    [][EditaPrimeroA70 =>
         /\ MontosYPorcentajes(pagos') = EnUnidades(<< <<70, 35>>, <<130, 65>> >>)
         /\ SumaMontos(pagos') = 200 * multiplicador
         /\ SumaPorcentajes(pagos') = Cien]_vars

\* the edit of the example has been saved
C16_Testigo ==
    /\ montoTotal = 200
    /\ ultima = Registro("editar", 0, "ok")
    /\ Len(pagos) = 2
    /\ pagos[1].monto = 70 * multiplicador
    /\ pagos[2].id = 2

\* the DatosPago that manejarGuardar hands to onGuardar for the form fields
DatosGuardados(campos) ==
    [titulo |-> IF campos.titulo # "" THEN campos.titulo
                ELSE IF pagoEditando # << >> THEN pagoEditando[1].titulo
                ELSE "Nuevo Pago",
     monto |-> campos.monto, porcentaje |-> campos.porcentaje,
     fechaPago |-> campos.fecha]

\* the form fields pass the validation of manejarGuardar
Aceptado(campos) ==
    validarPagoCompleto(campos.monto, campos.porcentaje, campos.fecha, fechaMinimaModal,
                        montoDisponible + montoOriginal,
                        porcentajeDisponible + porcentajeOriginal).valido

\* pago holds the requested data, up to the tolerance, and the given estado
TieneDatos(pago, datos, estado) ==
    /\ pago.titulo = datos.titulo
    /\ Abs(pago.monto - datos.monto) <= MARGEN_ERROR_PORCENTAJE
    /\ Abs(pago.porcentaje - datos.porcentaje) <= MARGEN_ERROR_PORCENTAJE
    /\ pago.fechaPago = datos.fechaPago
    /\ pago.estado = estado

\* C17: whenever the modal is open on a pago, every content of the form that
\* the validation accepts is saved as requested: after guardarPago the pago
\* has the requested title, amount, percentage and date, and its estado is
\* unchanged, whatever its index.
C17_EditarAplicaDatos ==
    (modalAbierto /\ pagoEditando # << >>) =>
        LET i == findIndex(pagos, pagoEditando[1].id)
        IN  i >= 0 =>
              \A c \in CamposEscenario :
                  Aceptado(c) =>
                      TieneDatos(guardarPago(pagos, pagoEditando, posicionInsercion,
                                             DatosGuardados(c), montoTotal, sigId,
                                             reloj)[i + 1],
                                 DatosGuardados(c), pagos[i + 1].estado)

\* the ids of a sequence of pagos, in its order
Ids(ps) == [i \in 1 .. Len(ps) |-> ps[i].id]

\* C18: an accepted insert at position i puts the new pago at index i and
\* leaves the others in their order; an accepted delete leaves the others in
\* their order; an accepted edit, payment or date change leaves the ids and
\* their order as they were.
C18_OrdenEstable ==
    [][/\ Completada({"insertar"})' =>
            /\ Len(pagos') = Len(pagos) + 1
            /\ pagos'[ultima'.indice + 1].id \notin {pagos[k].id : k \in 1 .. Len(pagos)}
            /\ spliceEliminar(Ids(pagos'), ultima'.indice) = Ids(pagos)
       /\ Completada({"eliminar"})' =>
            Ids(pagos') = spliceEliminar(Ids(pagos), ultima'.indice)
       /\ Completada({"editar", "pagar", "fecha"})' => Ids(pagos') = Ids(pagos)]_vars

\* a pago has been inserted between two others
C18_Testigo ==
    /\ Completada({"insertar"})
    /\ Len(pagos) = 3
    /\ ultima.indice = 1
    /\ Ids(pagos) = <<1, 3, 2>>

\* the id and the fechaCreacion of every pago of a sequence
Origenes(ps) == {<<ps[i].id, ps[i].fechaCreacion>> : i \in 1 .. Len(ps)}

IdsDistintos(ps) == \A i, j \in 1 .. Len(ps) : ps[i].id = ps[j].id => i = j

\* C19: no step changes the id or the fechaCreacion of a pago: only a delete
\* takes a pago away, only a creation or an insert adds one, every pago that
\* stays keeps both; and the ids of the sequence are pairwise distinct.
C19_IdentidadEstable ==
    [][/\ IdsDistintos(pagos')
       /\ \A o \in Origenes(pagos) \ Origenes(pagos') :
              /\ Completada({"eliminar"})'
              /\ o[1] \notin {pagos'[k].id : k \in 1 .. Len(pagos')}
       /\ \A o \in Origenes(pagos') \ Origenes(pagos) :
              /\ Completada({"crear", "insertar"})'
              /\ o[1] \notin {pagos[k].id : k \in 1 .. Len(pagos)}]_vars

\* a pago has been paid in a plan that holds a pago created during the run
C19_Testigo ==
    /\ Len(pagos) = 2
    /\ Completada({"pagar"})
    /\ \E i \in 1 .. 2 : pagos[i].fechaCreacion > Pasado

EnRango(pago) ==
    /\ pago.monto >= 0
    /\ pago.porcentaje >= 0
    /\ pago.porcentaje <= Cien

C21_CrearInicial ==
    [][ultima'.op = "crear" =>
         /\ Len(pagos) = 0
         /\ Len(pagos') = 1
         /\ pagos'[1].monto = montoTotal * multiplicador
         /\ pagos'[1].porcentaje = Cien
         /\ pagos'[1].estado = "pendiente"
         /\ pagos'[1].fechaPago = hoy]_vars

\* the first pago has just been created on the second day
C21_Testigo ==
    /\ ultima = Registro("crear", 0, "ok")
    /\ Len(pagos) = 1
    /\ hoy = 2
    /\ pagos[1].fechaPago = 2

\* ps and qs differ at most at index i (1-based)
IgualesSalvo(ps, qs, i) ==
    /\ Len(qs) = Len(ps)
    /\ \A k \in 1 .. Len(ps) : k # i => qs[k] = ps[k]

\* C22: an accepted payment of the pago at index i changes only the estado
\* and the fechaPagado of that pago; every other field of it and every other
\* pago stay as they were, in the same order.
C22_PagarSoloEstado ==
    [][Completada({"pagar"})' =>
         LET i == ultima'.indice + 1
         IN  /\ IgualesSalvo(pagos, pagos', i)
             /\ pagos'[i] = [pagos[i] EXCEPT !.estado = "pagado",
                                             !.fechaPagado = pagos'[i].fechaPagado]]_vars

\* the second of two pagos has been paid on a day later than its date
C22_Testigo ==
    /\ ultima = Registro("pagar", 1, "ok")
    /\ Len(pagos) = 2
    /\ pagos[2].estado = "pagado"
    /\ pagos[2].fechaPago < hoy

\* an accepted date change of the pago at index i changes only its fechaPago
SoloFecha ==
    Completada({"fecha"})' =>
        LET i == ultima'.indice + 1
        IN  /\ IgualesSalvo(pagos, pagos', i)
            /\ pagos'[i] = [pagos[i] EXCEPT !.fechaPago = pagos'[i].fechaPago]

\* C23: the date of every pago can be changed, whatever its estado (the date
\* selector of every card is enabled), and an accepted date change changes
\* only the fechaPago of that pago.
C23_FechaCualquierEstado ==
    [][/\ (Montado /\ ~modalAbierto) => \A i \in Indices : puedeEditar(i)
       /\ SoloFecha]_vars

\* ps needs no correction: every percentage is the one of its amount and the
\* two sums are the targets, all up to the 0.001 below which the code makes
\* no correction
Equilibrada(ps, total) ==
    /\ \A i \in 1 .. Len(ps) :
           Abs(ps[i].porcentaje - calcularPorcentaje(ps[i].monto, total)) <= UmbralAjuste
    /\ Abs(SumaPorcentajes(ps) - Cien) <= UmbralAjuste
    /\ Abs(SumaMontos(ps) - total * multiplicador) <= UmbralAjuste

\* the amounts and percentages of qs are those of ps, up to the tolerance
Cercanas(ps, qs) ==
    /\ Len(qs) = Len(ps)
    /\ \A i \in 1 .. Len(ps) :
           /\ Abs(qs[i].monto - ps[i].monto) <= MARGEN_ERROR_PORCENTAJE
           /\ Abs(qs[i].porcentaje - ps[i].porcentaje) <= MARGEN_ERROR_PORCENTAJE

C25_IdaYVuelta ==
    [][ultima'.op = "calcularMonto" /\ ultima.op = "calcularPorcentaje" =>
         /\ Abs(pagos'[1].monto - pagos[1].monto) <= MARGEN_ERROR_PORCENTAJE
         /\ 2 * PORCENTAJE_TOTAL * Abs(pagos'[1].monto - pagos[1].monto)
                <= montoTotal + PORCENTAJE_TOTAL]_vars

\* a third of the loan of 1000 has gone through the two conversions and has
\* come back changed
C25_Testigo ==
    /\ ultima.op = "calcularMonto"
    /\ montoTotal = 1000
    /\ pagos[1].monto # (4 * montoTotal * multiplicador) \div Partes
    /\ Abs(pagos[1].monto - (4 * montoTotal * multiplicador) \div Partes) <= 5

\* the sum of f(ps[i]) over the sequence
RECURSIVE SumaDe(_, _, _)
SumaDe(ps, total, porMonto) ==
    IF ps = << >> THEN 0
    ELSE (IF porMonto THEN calcularPorcentaje(Head(ps).monto, total)
          ELSE calcularMonto(Head(ps).porcentaje, total))
         + SumaDe(Tail(ps), total, porMonto)

\* what is left of objetivo after suma, when it is more than 0.001 either way
Residuo(objetivo, suma) ==
    IF Abs(objetivo - suma) > UmbralAjuste THEN objetivo - suma ELSE 0

\* C26: ajustarPorcentajes gives every pago the percentage of its amount and
\* adds to the last one what the sum lacks to 100 when that is more than
\* 0.001; ajustarMontos gives every pago the amount of its percentage and adds
\* to the last one what the sum lacks to the total when that is more than
\* 0.001; both keep every other field, the order and the length, and return
\* the empty sequence as it is.
C26_Ajustes ==
    [][/\ ultima'.op = "ajustarPorcentajes" =>
            /\ Len(pagos') = Len(pagos)
            /\ \A i \in 1 .. Len(pagos) :
                   pagos'[i] =
                       [pagos[i] EXCEPT !.porcentaje =
                           calcularPorcentaje(pagos[i].monto, montoTotal)
                           + (IF i = Len(pagos)
                              THEN Residuo(Cien, SumaDe(pagos, montoTotal, TRUE))
                              ELSE 0)]
       /\ ultima'.op = "ajustarMontos" =>
            /\ Len(pagos') = Len(pagos)
            /\ \A i \in 1 .. Len(pagos) :
                   pagos'[i] =
                       [pagos[i] EXCEPT !.monto =
                           calcularMonto(pagos[i].porcentaje, montoTotal)
                           + (IF i = Len(pagos)
                              THEN Residuo(montoTotal * multiplicador,
                                           SumaDe(pagos, montoTotal, FALSE))
                              ELSE 0)]]_vars

\* ajustarPorcentajes has put a difference on the last of two pagos, the
\* first of which is pagado
C26_Testigo ==
    /\ ultima.op = "ajustarPorcentajes"
    /\ Len(pagos) = 2
    /\ pagos[1].estado = "pagado"
    /\ pagos[1].porcentaje = calcularPorcentaje(pagos[1].monto, montoTotal)
    /\ pagos[2].porcentaje # calcularPorcentaje(pagos[2].monto, montoTotal)

\* the modal is open on the pago at index i (0-based) of the sequence
EditandoIndice == findIndex(pagos, pagoEditando[1].id)

\* C27: while the modal is open on a pago, the ceilings that manejarGuardar
\* passes to validarPagoCompleto are the loan total less the amounts of the
\* other pagos, and 100 less their percentages, so the amount and percentage
\* that the pago holds, when positive, are not rejected as exceeding them.
C27_TopeDeEdicion ==
    (modalAbierto /\ pagoEditando # << >> /\ EditandoIndice >= 0) =>
        LET actual == pagos[EditandoIndice + 1]
            otros == spliceEliminar(pagos, EditandoIndice)
            topeMonto == montoDisponible + montoOriginal
            topePorcentaje == porcentajeDisponible + porcentajeOriginal
        IN  /\ topeMonto = montoTotal * multiplicador - SumaMontos(otros)
            /\ topePorcentaje = Cien - SumaPorcentajes(otros)
            /\ actual.monto > 0 => validarMontoValido(actual.monto, topeMonto).valido
            /\ (actual.porcentaje > 0 /\ actual.porcentaje <= Cien) =>
                   validarPorcentajeValido(actual.porcentaje, topePorcentaje).valido

C30_PagadosAlInicio == PagadosPrimero(pagos)

\* the two pagos of a plan have been paid, the first one during the run
C30_Testigo ==
    /\ ultima = Registro("pagar", 1, "ok")
    /\ Len(pagos) = 2
    /\ pagos[1].estado = "pagado"
    /\ pagos[1].fechaPagado > Pasado
    /\ pagos[2].estado = "pagado"

====
